---- MODULE Spec2Model ----
(***************************************************************************)
(* A model of the grammar loader (grammar.rs), the rule store (store.rs)   *)
(* and the backtracking recognizer (parser.rs) of rust-automate.           *)
(*                                                                         *)
(* Option<T> is modelled with the value NoneTok / NoneStr / handle 0 for   *)
(* None.  An Arc<Mutex<RuleSet>> is a handle: an index into `heap`.        *)
(***************************************************************************)
EXTENDS Integers, Sequences, FiniteSets, TLC

VARIABLES
    grammar,    \* the Grammar description handed to to_store (grammar.rs:14-16)
    pc,         \* position of the program: "pass1", "pass2" (to_store), "loaded",
                \* "ready" (a Parser exists), "running" (in parse), "direct" (in
                \* a direct call of process), "called" (that call returned), "panic"
    sets,       \* Store.sets: name -> handle of the RuleSet (0: no entry)
    heap,       \* the allocated RuleSets, heap[h] is the RuleSet behind handle h
    si,         \* to_store: position of `for set in &self.sets` (1-based)
    ri,         \* to_store: position of `for rule_set in grammar_rule_sets` (1-based)
    index,      \* to_store: the local `index` of pass 2 (0-based, as in the code)
    input,      \* the text the caller wants recognised, a sequence of lexemes
    lexer,      \* Parser.lexer: [src |-> lexed items, pos |-> items already read]
    stack,      \* call stack of process_rule_set / process frames
    ret,        \* value being returned by the frame popped last (NoRet: none)
    obs,        \* what the last executed invocation of process saw and answered:
                \* its index, steps size, carry and end arguments, the token it
                \* acquired, the items it read, the cursor position and the
                \* end-latch after that, the tokens matched before it, its answer
    obsSet,     \* what the last invocation of process_rule_set that returned
                \* did: [size of rules, results of the Rules it tried, its answer,
                \* position of the caller's cursor at entry and at return]
    result,     \* verdict returned by parse (NoRet before it returns)
    order,      \* the order in which get_all_rules enumerated the map in this run
    loads,      \* number of stores to_store has returned
    built,      \* the store as the last to_store returned it: [sets, heap]
    verdicts    \* the parse runs completed so far, oldest first:
                \* [verdict, order, load]

vars == <<grammar, pc, sets, heap, si, ri, index, input, lexer, stack, ret, obs,
          obsSet, result, order, loads, built, verdicts>>

loadVars == <<grammar, sets, heap, si, ri, index>>
runVars  == <<input, lexer, stack, ret, obs, obsSet, result, order, verdicts>>

----------------------------------------------------------------------------
(* Bounds of the model *)

\* longest enumerated input, in lexemes
MaxLen == 2
\* deepest call stack explored (the recursion of a cyclic grammar is unbounded)
MaxDepth == 32
\* parse runs per behaviour
MaxRuns == 2
\* longest token stream handed to a direct call of process
MaxDirectLen == 1

----------------------------------------------------------------------------
(* Tokens: parser.rs:21-38 *)

NoneTok == "None"
NoneStr == "<none>"
ErrTok  == "Err"
NoRet   == "noret"

Token == {"Contact", "Options", "Identifier", "Number", "End"}

\* The characters of the lexemes used below.
Letters == {"contact", "rate", "delay", "A", "B"}
Digits  == {"10", "20", "30", "32"}

\* A lexer whose Options kind lacks the `delay` literal.
LexOne_NoDelay(w) ==
    CASE w = "contact"            -> "Contact"
      [] w = "rate"               -> "Options"
      [] w \in Letters            -> "Identifier"
      [] w \in Digits             -> "Number"
      [] OTHER                    -> ErrTok

\* The Logos lexer on one lexeme: Ok(kind), or Err for text no pattern matches.
\* Explicit #[token] literals win over the [a-zA-Z]+ pattern.
LexOne(w) ==
    CASE w = "contact"            -> "Contact"
      [] w \in {"rate", "delay"}  -> "Options"
      [] w \in Letters            -> "Identifier"
      [] w \in Digits             -> "Number"
      [] OTHER                    -> ErrTok

\* Token::lexer(text): the items the cursor yields, whitespace skipped.
Lex(text) == [k \in 1..Len(text) |-> LexOne(text[k])]

\* Token::from_string; "PANIC" stands for panic!("Invalid token").
from_string(s) ==
    CASE s = "Contact"    -> "Contact"
      [] s = "Rate"       -> "Options"
      [] s = "Delay"      -> "Options"
      [] s = "Identifier" -> "Identifier"
      [] s = "Number"     -> "Number"
      [] s = "End"        -> "End"
      [] OTHER            -> "PANIC"

\* const INPUT: &str = r#"contact A B 20 32"#;
INPUT == <<"contact", "A", "B", "20", "32">>

----------------------------------------------------------------------------
(* Grammar descriptions: grammar.rs:13-16, 114-118, 162-166 *)

GR(terms, nt) == [terminals |-> terms, non_terminal |-> nt]
GS(n, rs)     == [name |-> n, rules |-> rs]

Names == {"C", "R", "S"}

\* The reference grammar, its Options terminal spelled as from_string spells it.
RefGrammar ==
    << GS("C", << GR(<<"Contact", "Identifier", "Identifier", "Number", "Number">>, "R"),
                  GR(<<>>, NoneStr) >>),
       GS("R", << GR(<<"Rate", "Number", "Number", "Number">>, "R"),
                  GR(<<"Delay", "Number", "Number", "Number">>, "C"),
                  GR(<<>>, NoneStr) >>) >>

\* The reference grammar in the canonical capitalisation of the description format.
RefGrammarCanonical ==
    << GS("C", << GR(<<"Contact", "Identifier", "Identifier", "Number", "Number">>, "R"),
                  GR(<<>>, NoneStr) >>),
       GS("R", << GR(<<"Options", "Number", "Number", "Number">>, "R"),
                  GR(<<"Options", "Number", "Number", "Number">>, "C"),
                  GR(<<>>, NoneStr) >>) >>

SmallGrammars ==
    { << GS("S", << GR(<<"Number">>, NoneStr) >>) >>,
      << GS("S", << GR(<<"Number">>, "S"), GR(<<>>, NoneStr) >>) >>,
      << GS("S", << GR(<<>>, NoneStr), GR(<<"Number">>, "S") >>) >>,
      << GS("S", << GR(<<"Number">>, NoneStr), GR(<<"Rate">>, "R") >>),
         GS("R", << GR(<<"Number">>, NoneStr) >>) >>,
      << GS("S", << GR(<<"Rate">>, "R"), GR(<<"Number">>, NoneStr) >>),
         GS("R", << GR(<<"Number">>, NoneStr), GR(<<>>, NoneStr) >>) >>,
      << GS("S", << GR(<<"End">>, NoneStr) >>) >>,
      << GS("S", << GR(<<"Number", "End">>, NoneStr) >>) >>,
      << GS("S", << GR(<<"End">>, "R") >>),
         GS("R", << GR(<<>>, NoneStr) >>) >>,
      << GS("S", << GR(<<>>, "S") >>) >>,
      << GS("S", << GR(<<>>, "R") >>),
         GS("R", << GR(<<"Number">>, NoneStr) >>) >>,
      << GS("C", << GR(<<"Number">>, NoneStr) >>),
         GS("R", << GR(<<"Delay">>, NoneStr), GR(<<>>, NoneStr) >>) >>,
      << GS("C", << GR(<<>>, NoneStr) >>),
         GS("R", << GR(<<>>, "R") >>) >>,
      << GS("C", << GR(<<"Contact", "Identifier">>, NoneStr) >>) >>,
      << GS("C", << GR(<<"Options">>, NoneStr) >>) >>,
      << GS("C", << GR(<<"Number">>, NoneStr), GR(<<"Bogus">>, NoneStr) >>) >>,
      << GS("C", << GR(<<"Number">>, "X") >>) >>,
      << GS("C", << GR(<<"Number">>, NoneStr), GR(<<"Rate">>, NoneStr) >>),
         GS("C", << GR(<<"Contact">>, NoneStr) >>) >>,
      << GS("S", << GR(<<>>, "R"), GR(<<"Number">>, NoneStr) >>),
         GS("R", << GR(<<>>, "S") >>) >>,
      << GS("C", << GR(<<"Number">>, NoneStr) >>),
         GS("R", << GR(<<"Rate">>, NoneStr) >>),
         GS("C", << GR(<<"Contact">>, NoneStr), GR(<<>>, NoneStr) >>) >> }

Grammars == {RefGrammar, RefGrammarCanonical} \cup SmallGrammars

----------------------------------------------------------------------------
(* Rule graph: rules/mod.rs:16-61 *)

\* RuleStep { token, next }
RuleStep(t, n) == [token |-> t, next |-> n]

\* GrammarRule::to_rule_without_non_terminal: None if from_string panics.
TerminalPanics(rule) ==
    \E k \in 1..Len(rule.terminals) : from_string(rule.terminals[k]) = "PANIC"

to_rule_without_non_terminal(rule) ==
    [k \in 1..Len(rule.terminals) |-> RuleStep(from_string(rule.terminals[k]), 0)]

\* GrammarSet::to_rule_set_without_non_terminal
to_rule_set_without_non_terminal(set) ==
    [k \in 1..Len(set.rules) |-> to_rule_without_non_terminal(set.rules[k])]

SetPanics(set) == \E k \in 1..Len(set.rules) : TerminalPanics(set.rules[k])

\* add_rule_set that keeps the entry a name already has.
add_rule_set_KeepsFirst(name, h) ==
    IF sets[name] # 0 THEN sets ELSE [sets EXCEPT ![name] = h]

\* Store::add_rule_set: HashMap::insert of the new handle under `name`.
add_rule_set(name, h) == [sets EXCEPT ![name] = h]

\* Store::get_rule_set: the handle under `name`, 0 for None.
get_rule_set(name) == IF name \in Names THEN sets[name] ELSE 0

\* Pass 2 that puts the link step in front of the steps of the Rule.
AppendLink_InFront(steps, tgt) == << RuleStep(NoneTok, tgt) >> \o steps

\* grammar.rs:73-84: the link step { token: None, next: Some(rule_set) } is
\* appended to the step list of the Rule.
AppendLink(steps, tgt) == Append(steps, RuleStep(NoneTok, tgt))

----------------------------------------------------------------------------
(* Grammar::to_store, grammar.rs:41-91 *)

Init ==
    /\ grammar \in Grammars
    /\ pc = "pass1"
    /\ sets = [n \in Names |-> 0]
    /\ heap = <<>>
    /\ si = 1
    /\ ri = 1
    /\ index = 0
    /\ input = <<>>
    /\ lexer = [src |-> <<>>, pos |-> 0]
    /\ stack = <<>>
    /\ ret = NoRet
    /\ obs = [index |-> 0, size |-> 0, token |-> NoneTok, carry |-> NoneTok,
              end |-> FALSE, ret |-> NoRet, read |-> 0, pos |-> 0,
              latch |-> FALSE, matched |-> <<>>]
    /\ obsSet = [size |-> 0, tried |-> <<>>, ret |-> NoRet, entry |-> 0, exit |-> 0]
    /\ result = NoRet
    /\ order = <<>>
    /\ loads = 0
    /\ built = [sets |-> sets, heap |-> heap]
    /\ verdicts = <<>>

\* Pass 1, one iteration of the loop at grammar.rs:45-48 (with Store::add_rule_set).
Pass1 ==
    /\ pc = "pass1"
    /\ IF si > Len(grammar)
         THEN /\ pc' = "pass2"
              /\ si' = 1
              /\ UNCHANGED <<sets, heap>>
         ELSE IF SetPanics(grammar[si])
                THEN /\ pc' = "panic"
                     /\ UNCHANGED <<sets, heap, si>>
                ELSE /\ heap' = Append(heap, to_rule_set_without_non_terminal(grammar[si]))
                     /\ sets' = add_rule_set(grammar[si].name, Len(heap) + 1)
                     /\ si' = si + 1
                     /\ pc' = pc
    /\ ri' = 1
    /\ index' = 0
    /\ UNCHANGED <<grammar, loads, built>>
    /\ UNCHANGED runVars

\* Pass 2, one iteration of the inner loop at grammar.rs:60-87, or the step of the
\* outer loop at grammar.rs:51-57 when the inner one is exhausted.
Pass2 ==
    /\ pc = "pass2"
    /\ IF si > Len(grammar)
         THEN /\ pc' = "loaded"
              /\ loads' = loads + 1
              /\ built' = [sets |-> sets, heap |-> heap]
              /\ UNCHANGED <<heap, si, ri, index>>
         ELSE IF ri > Len(grammar[si].rules)
                THEN /\ si' = si + 1
                     /\ ri' = 1
                     /\ index' = 0
                     /\ UNCHANGED <<heap, pc, loads, built>>
                ELSE LET rule == grammar[si].rules[ri]
                         h    == get_rule_set(grammar[si].name)
                         tgt  == get_rule_set(rule.non_terminal)
                     IN  IF rule.non_terminal = NoneStr
                           THEN /\ ri' = ri + 1
                                /\ UNCHANGED <<heap, si, index, pc, loads, built>>
                           ELSE IF tgt = 0 \/ index + 1 > Len(heap[h])
                                  THEN /\ pc' = "panic"
                                       /\ UNCHANGED <<heap, si, ri, index, loads, built>>
                                  ELSE /\ heap' = [heap EXCEPT ![h][index + 1] =
                                                     AppendLink(@, tgt)]
                                       /\ index' = index + 1
                                       /\ ri' = ri + 1
                                       /\ UNCHANGED <<si, pc, loads, built>>
    /\ UNCHANGED <<grammar, sets>>
    /\ UNCHANGED runVars

----------------------------------------------------------------------------
(* Inputs *)

\* Lexemes of the enumerated inputs; "@" is text no token pattern matches.
Alphabet == {"contact", "rate", "A", "10", "@"}

RefInputs ==
    { <<"contact", "A", "B", "20", "32">>,
      <<"contact", "A", "B", "20">>,
      <<"rate", "10", "20", "30">>,
      <<"delay", "10", "20", "30">>,
      <<"contact", "A", "B", "20", "32", "rate", "10", "20", "30">>,
      <<"contact", "A", "B", "20", "32", "delay", "10", "20", "30",
        "contact", "A", "B", "20", "32">>,
      <<"contact", "A", "B", "20", "32", "@">>,
      <<"10", "10", "10">>,
      <<"rate", "10", "10">>,
      <<"10", "10", "@">> }

Inputs == UNION {[1..n -> Alphabet] : n \in 0..MaxLen} \cup RefInputs

\* The texts a caller may hand over: any input on the first run, the same
\* input again when the description is loaded a second time.
Callers == IF verdicts = <<>> THEN Inputs ELSE {input}

----------------------------------------------------------------------------
(* Parser: parser.rs:73-103 *)

\* Parser::new(store): the lexer is built from the constant INPUT.
ParserNewLexer(text) == [src |-> Lex(INPUT), pos |-> 0]

\* main.rs:36-42 reads the input file and hands Parser::new a lexer over it;
\* parser.rs:89-92 takes no such argument.
ParserNew ==
    /\ pc = "loaded"
    /\ \E text \in Callers :
         /\ input' = text
         /\ lexer' = ParserNewLexer(text)
    /\ pc' = "ready"
    /\ UNCHANGED <<loadVars, loads, built>>
    /\ UNCHANGED <<stack, ret, obs, obsSet, result, order, verdicts>>

\* A Parser whose lexer field holds the token stream of the caller's text: the
\* state main.rs:39-42 sets up, and the `_lexer` argument of the public
\* process_rule_set / process.
ParserOver ==
    /\ pc = "loaded"
    /\ \E text \in Callers :
         /\ input' = text
         /\ lexer' = [src |-> Lex(text), pos |-> 0]
    /\ pc' = "ready"
    /\ UNCHANGED <<loadVars, loads, built>>
    /\ UNCHANGED <<stack, ret, obs, obsSet, result, order, verdicts>>

\* The names with an entry in Store.sets.
StoreKeys == {n \in Names : sets[n] # 0}

\* The orders in which HashMap::values() may enumerate the entries.
Orders == {o \in [1..Cardinality(StoreKeys) -> StoreKeys] :
             \A a, b \in DOMAIN o : o[a] = o[b] => a = b}

\* References to the Rules of the RuleSet behind handle h, in declaration order.
RulesOf(h) == [k \in 1..Len(heap[h]) |-> <<h, k>>]

RECURSIVE Concat(_)
Concat(ss) == IF ss = <<>> THEN <<>> ELSE Head(ss) \o Concat(Tail(ss))

\* get_all_rules that returns the Rules of the first RuleSet only.
get_all_rules_FirstSetOnly(o) == RulesOf(sets[o[1]])

\* get_all_rules whose loop stops one RuleSet early.
get_all_rules_SkipsLastSet(o) ==
    IF Len(o) <= 1 THEN RulesOf(sets[o[1]])
    ELSE Concat([k \in 1..(Len(o) - 1) |-> RulesOf(sets[o[k]])])

\* Store::get_all_rules, for the iteration order o of the map.
get_all_rules(o) == Concat([k \in DOMAIN o |-> RulesOf(sets[o[k]])])

\* The mutex of the RuleSet behind handle h, and of the step list of its k-th
\* Rule (rules/mod.rs:38-61: Arc<Mutex<RuleSet>>, Arc<Mutex<Vec<RuleStep>>>).
SetLock(h) == <<"set", h, 0>>
StepsLock(r) == <<"steps", r[1], r[2]>>

\* A caller that keeps its lock guards alive over the call it makes.
HeldAcrossCall_Kept(taken) == taken

\* The locks, out of those a function has taken, that it still holds when it
\* makes its next call: the guard of steps.lock() is a temporary of the
\* statement (parser.rs:187), temp2 is dropped before process_rule_set is
\* called (parser.rs:229), the guard of get_all_rules ends with each
\* iteration (store.rs:111-115).
HeldAcrossCall(taken) == {}

\* `locked`: the lock guards the frame holds while the call above it runs
\* (in the outermost frame: those parse holds).
Frame(fn, rules, steps, idx, carry, end) ==
    [fn |-> fn, rules |-> rules, k |-> 0, lex |-> 0, steps |-> steps,
     index |-> idx, carry |-> carry, end |-> end, token |-> NoneTok,
     ref |-> <<0, 0>>, tried |-> <<>>, entry |-> 0, locked |-> {}]

\* Parser::parse: get_all_rules, then the call of process_rule_set.
Parse ==
    /\ pc = "ready"
    /\ Len(verdicts) < MaxRuns
    /\ \E o \in Orders :
         /\ order' = o
         /\ stack' = << [Frame("prs", get_all_rules(o), <<>>, 0, NoneTok, FALSE)
                           EXCEPT !.entry = lexer.pos,
                                  !.locked = HeldAcrossCall(
                                      {SetLock(sets[n]) : n \in StoreKeys})] >>
    /\ pc' = "running"
    /\ ret' = NoRet
    /\ result' = NoRet
    /\ UNCHANGED <<loadVars, loads, built>>
    /\ UNCHANGED <<input, lexer, obs, obsSet, verdicts>>

----------------------------------------------------------------------------
(* Parser::process_rule_set and Parser::process: parser.rs:124-251 *)

Running == {"running", "direct"}

Top == stack[Len(stack)]
Pop == SubSeq(stack, 1, Len(stack) - 1)

\* A recognizer in which every frame reads through the Parser's own lexer.
Owner_ParserLexer(p) == 0

\* The frame whose local `lexer` clone the frame at depth p reads through its
\* `_lexer` reference: the nearest process_rule_set frame below it (0: the
\* cursor of the Parser itself).
RECURSIVE Owner(_)
Owner(p) == IF p <= 1 THEN 0
            ELSE IF stack[p - 1].fn = "prs" THEN p - 1 ELSE Owner(p - 1)

CursorPos(p) == IF Owner(p) = 0 THEN lexer.pos ELSE stack[Owner(p)].lex

\* Token acquisition that reads the cursor even when a carry token is given.
Acquire_IgnoresCarry(carry, pos, end) ==
    IF pos < Len(lexer.src) THEN <<lexer.src[pos + 1], 1, end>>
    ELSE IF end THEN <<NoneTok, 0, end>>
    ELSE <<"End", 0, TRUE>>

\* Token acquisition that produces End whenever the cursor is exhausted.
Acquire_EndAgain(carry, pos, end) ==
    IF carry # NoneTok THEN <<carry, 0, end>>
    ELSE IF pos < Len(lexer.src) THEN <<lexer.src[pos + 1], 1, end>>
    ELSE <<"End", 0, TRUE>>

\* Token acquisition, parser.rs:194-206: <<token, items read, end>>.
Acquire(carry, pos, end) ==
    IF carry # NoneTok THEN <<carry, 0, end>>
    ELSE IF pos < Len(lexer.src) THEN <<lexer.src[pos + 1], 1, end>>
    ELSE IF end THEN <<NoneTok, 0, end>>
    ELSE <<"End", 0, TRUE>>

\* The acceptance test without the comparison of the step index.
AcceptsHere_AnyIndex(token, idx, size) ==
    token = NoneTok \/ token = "End"

\* The acceptance test that takes only the End sentinel for the end of input.
AcceptsHere_OnlyEnd(token, idx, size) ==
    token = "End" /\ idx = size

\* The acceptance test that looks at the step index only.
AcceptsHere_AnyToken(token, idx, size) == idx = size

\* parser.rs:212: no more tokens and no more steps.
AcceptsHere(token, idx, size) ==
    (token = NoneTok \/ token = "End") /\ idx = size

\* parser.rs:217: we still have tokens or steps.
RejectsHere(token, idx, size) == token = NoneTok \/ idx = size

\* parser.rs:225: the step is a reference to another rule set.
IsLink(step) == step.token = NoneTok /\ step.next # 0

\* process that gives up with false once the call stack is eight frames deep.
Decide_DepthBound(token, steps, idx) ==
    IF AcceptsHere(token, idx, Len(steps)) THEN "true"
    ELSE IF RejectsHere(token, idx, Len(steps)) \/ Len(stack) >= 8 THEN "false"
    ELSE LET step == steps[idx + 1]
         IN  IF IsLink(step)
               THEN IF token = ErrTok THEN "panic" ELSE "link"
               ELSE IF token = ErrTok \/ step.token = NoneTok THEN "panic"
                    ELSE IF token = step.token THEN "match" ELSE "false"

\* What one invocation of process decides, parser.rs:208-250:
\* "true", "false", "link", "match" or "panic" (an unwrap of Err or of None).
Decide(token, steps, idx) ==
    IF AcceptsHere(token, idx, Len(steps)) THEN "true"
    ELSE IF RejectsHere(token, idx, Len(steps)) THEN "false"
    ELSE LET step == steps[idx + 1]
         IN  IF IsLink(step)
               THEN IF token = ErrTok THEN "panic" ELSE "link"
               ELSE IF token = ErrTok \/ step.token = NoneTok THEN "panic"
                    ELSE IF token = step.token THEN "match" ELSE "false"

\* The cursor owned by frame q (0: the Parser's) advanced by n items.
Advance(st, q, n) ==
    IF q = 0 THEN st ELSE [st EXCEPT ![q].lex = @ + n]

\* The tokens the terminal steps of the chain of frames st have matched,
\* outermost first: a frame of process that called process again
\* (parser.rs:235-243) matched the token it had acquired.
RECURSIVE Matched(_)
Matched(st) ==
    IF Len(st) <= 1 THEN <<>>
    ELSE LET n == Len(st)
         IN  Matched(SubSeq(st, 1, n - 1)) \o
               (IF st[n - 1].fn = "process" /\ st[n].fn = "process"
                  THEN << st[n - 1].token >> ELSE <<>>)

\* process that takes the steps out of the shared list instead of cloning it.
SharedStepsAfter_Taken(steps) == <<>>

\* parser.rs:187-188: process locks the step list it was given, clones it and
\* drops the lock; the shared list is left as it was.
SharedStepsAfter(steps) == steps

\* process that hands its own carry token on after a terminal match.
NextCarry_Kept(carry) == carry

\* parser.rs:241: the recursive call after a terminal match gets no carry.
NextCarry(carry) == NoneTok

\* The locks held by the frames of the call stack; lock() on one of them
\* does not return.
HeldLocks == UNION {stack[i].locked : i \in 1..Len(stack)}

\* One invocation of process up to its return or its recursive call.
ProcessStep ==
    /\ pc \in Running
    /\ stack # <<>>
    /\ Top.fn = "process"
    /\ ret = NoRet
    /\ LET f     == Top
           p     == Len(stack)
           q     == Owner(p)
           acq   == Acquire(f.carry, CursorPos(p), f.end)
           token == acq[1]
           end   == acq[3]
           d     == Decide(token, f.steps, f.index)
           read  == Advance(stack, q, acq[2])
           taken == (IF f.ref = <<0, 0>> THEN {} ELSE {StepsLock(f.ref)}) \cup
                    (IF d = "link" THEN {SetLock(f.steps[f.index + 1].next)} ELSE {})
           here  == [read EXCEPT ![p].token = token, ![p].end = end,
                                 ![p].locked = HeldAcrossCall(taken)]
       IN  /\ d \in {"link", "match"} => Len(stack) < MaxDepth
           /\ taken \cap HeldLocks = {}
           /\ obs' = [index |-> f.index, size |-> Len(f.steps), token |-> token,
                      carry |-> f.carry, end |-> f.end, ret |-> d,
                      read |-> acq[2], pos |-> CursorPos(p) + acq[2],
                      latch |-> end, matched |-> Matched(stack)]
           /\ lexer' = IF q = 0 THEN [lexer EXCEPT !.pos = @ + acq[2]] ELSE lexer
           /\ CASE d = "true"  -> /\ stack' = SubSeq(read, 1, p - 1)
                                  /\ ret' = "true"
                                  /\ pc' = pc
                [] d = "false" -> /\ stack' = SubSeq(read, 1, p - 1)
                                  /\ ret' = "false"
                                  /\ pc' = pc
                [] d = "panic" -> /\ stack' = here
                                  /\ ret' = ret
                                  /\ pc' = "panic"
                [] d = "link"  -> /\ stack' = Append(here,
                                       [Frame("prs", RulesOf(f.steps[f.index + 1].next),
                                              <<>>, 0, token, end)
                                          EXCEPT !.entry = CursorPos(p) + acq[2]])
                                  /\ ret' = ret
                                  /\ pc' = pc
                [] d = "match" -> /\ stack' = Append(here,
                                       Frame("process", <<>>, f.steps, f.index + 1,
                                             NextCarry(f.carry), end))
                                  /\ ret' = ret
                                  /\ pc' = pc
           /\ heap' = IF f.ref = <<0, 0>> THEN heap
                      ELSE [heap EXCEPT ![f.ref[1]][f.ref[2]] = SharedStepsAfter(@)]
    /\ UNCHANGED <<grammar, sets, si, ri, index, loads, built>>
    /\ UNCHANGED <<input, obsSet, result, order, verdicts>>

\* process returns what its recursive call returned, parser.rs:234, 237-243.
ProcessReturn ==
    /\ pc \in Running
    /\ stack # <<>>
    /\ Top.fn = "process"
    /\ ret # NoRet
    /\ stack' = Pop
    /\ UNCHANGED <<loadVars, loads, built>>
    /\ UNCHANGED <<pc, input, lexer, ret, obs, obsSet, result, order, verdicts>>

\* A Rule whose step list is the copy pass 1 made, without the link steps
\* pass 2 appended to the stored list.
StepsOf_Pass1Copy(r) == SelectSeq(heap[r[1]][r[2]], LAMBDA s : s.next = 0)

\* rules/mod.rs:38-45, parser.rs:141: a Rule holds its steps behind an Arc, so
\* the clone of the Rule handed to process shares the stored step list.
StepsOf(r) == heap[r[1]][r[2]]

\* process_rule_set that clones the lexer once, before the loop.
AlternativeCursor_ClonedOnce(callerPos, prevPos, k) ==
    IF k = 0 THEN callerPos ELSE prevPos

\* parser.rs:136: each iteration works on a new clone of the caller's lexer;
\* prevPos is where the clone of the previous iteration was left.
AlternativeCursor(callerPos, prevPos, k) == callerPos

\* process_rule_set: the next iteration of `for rule in rules` (clone the
\* lexer, call process on the rule's steps), or `false` after the last one.
RuleSetStep ==
    /\ pc \in Running
    /\ stack # <<>>
    /\ Top.fn = "prs"
    /\ ret = NoRet
    /\ LET f == Top
           p == Len(stack)
       IN  IF f.k < Len(f.rules)
             THEN /\ Len(stack) < MaxDepth
                  /\ LET r == f.rules[f.k + 1]
                     IN  stack' = Append([stack EXCEPT ![p].k = f.k + 1,
                                                       ![p].lex = AlternativeCursor(
                                                           CursorPos(p), f.lex, f.k)],
                                         [Frame("process", <<>>, StepsOf(r),
                                                f.index, f.carry, f.end)
                                            EXCEPT !.ref = r])
                  /\ ret' = ret
                  /\ obsSet' = obsSet
             ELSE /\ stack' = Pop
                  /\ ret' = "false"
                  /\ obsSet' = [size |-> Len(f.rules), tried |-> f.tried,
                                ret |-> "false", entry |-> f.entry,
                                exit |-> CursorPos(p)]
    /\ UNCHANGED <<loadVars, loads, built>>
    /\ UNCHANGED <<pc, input, lexer, obs, result, order, verdicts>>

\* process_rule_set that goes on to the next Rule whatever process returned.
ReturnsAt_Never(res) == FALSE

\* parser.rs:148: `if result`.
ReturnsAt(res) == res = "true"

\* process_rule_set after process returned: `if result { return true; }`.
RuleSetReturn ==
    /\ pc \in Running
    /\ stack # <<>>
    /\ Top.fn = "prs"
    /\ ret # NoRet
    /\ LET f     == Top
           tried == Append(f.tried, ret)
       IN  IF ReturnsAt(ret)
             THEN /\ stack' = Pop
                  /\ ret' = "true"
                  /\ obsSet' = [size |-> Len(f.rules), tried |-> tried,
                                ret |-> "true", entry |-> f.entry,
                                exit |-> CursorPos(Len(stack))]
             ELSE /\ stack' = [stack EXCEPT ![Len(stack)].tried = tried]
                  /\ ret' = NoRet
                  /\ obsSet' = obsSet
    /\ UNCHANGED <<loadVars, loads, built>>
    /\ UNCHANGED <<pc, input, lexer, obs, result, order, verdicts>>

\* parse returns the verdict of the outermost process_rule_set.
ParseReturn ==
    /\ pc = "running"
    /\ stack = <<>>
    /\ ret # NoRet
    /\ result' = ret
    /\ verdicts' = Append(verdicts, [verdict |-> ret, order |-> order, load |-> loads])
    /\ ret' = NoRet
    /\ pc' = "ready"
    /\ UNCHANGED <<loadVars, loads, built>>
    /\ UNCHANGED <<input, lexer, stack, obs, obsSet, order>>

\* to_store is called again on the same description (main.rs:28-33 run anew)
\* and the same input is recognised against the new store.
Reload ==
    /\ pc = "ready"
    /\ verdicts # <<>>
    /\ Len(verdicts) < MaxRuns
    /\ loads <= Len(verdicts)
    /\ pc' = "pass1"
    /\ sets' = [n \in Names |-> 0]
    /\ heap' = <<>>
    /\ si' = 1
    /\ ri' = 1
    /\ index' = 0
    /\ lexer' = [src |-> <<>>, pos |-> 0]
    /\ UNCHANGED <<grammar, input, stack, ret, obs, obsSet, result, order, loads, built, verdicts>>

\* A direct call of the public Parser::process on the steps of a stored Rule,
\* at step index 0, with any carry token and any end-latch.
CallProcess ==
    /\ pc = "ready"
    /\ verdicts = <<>>
    /\ Len(lexer.src) <= MaxDirectLen
    /\ \E n \in StoreKeys, carry \in Token \cup {NoneTok}, end \in BOOLEAN :
         \E k \in 1..Len(heap[sets[n]]) :
            stack' = << [Frame("process", <<>>, heap[sets[n]][k], 0, carry, end)
                           EXCEPT !.ref = <<sets[n], k>>] >>
    /\ pc' = "direct"
    /\ ret' = NoRet
    /\ UNCHANGED <<loadVars, loads, built>>
    /\ UNCHANGED <<input, lexer, obs, obsSet, result, order, verdicts>>

\* The direct call of process returns to its caller.
CallReturn ==
    /\ pc = "direct"
    /\ stack = <<>>
    /\ ret # NoRet
    /\ pc' = "called"
    /\ UNCHANGED <<loadVars, loads, built>>
    /\ UNCHANGED runVars

----------------------------------------------------------------------------
(* Properties of the store and of the verdicts *)

\* parse has returned and its verdict is in `result`.
Returned == pc = "ready" /\ result # NoRet

StoreHandles == {sets[n] : n \in StoreKeys}

\* The step sequences of the Rules of the RuleSets in the store.
StoreRules == UNION {{heap[h][k] : k \in 1..Len(heap[h])} : h \in StoreHandles}

\* a -> b: some Rule of the RuleSet a starts with a link to the RuleSet b, so
\* that b is entered from a with no token matched in between.
LinkEdge(a, b) ==
    \E k \in 1..Len(heap[a]) :
        /\ heap[a][k] # <<>>
        /\ IsLink(heap[a][k][1])
        /\ heap[a][k][1].next = b

RECURSIVE ReachFrom(_, _)
ReachFrom(S, n) ==
    IF n = 0 THEN S
    ELSE ReachFrom(S \cup {b \in 1..Len(heap) : \E a \in S : LinkEdge(a, b)}, n - 1)

NoLinkOnlyCycle ==
    \A a \in 1..Len(heap) :
        a \notin ReachFrom({b \in 1..Len(heap) : LinkEdge(a, b)}, Len(heap))

NoLexError(src) == \A k \in 1..Len(src) : src[k] # ErrTok

NoEndTerminal == \A r \in StoreRules : \A k \in 1..Len(r) : r[k].token # "End"

NoEmptyRule == \A r \in StoreRules : r # <<>>

NoBareEndRule == \A r \in StoreRules : r # << RuleStep("End", 0) >>

UniqueNames ==
    \A a, b \in 1..Len(grammar) : grammar[a].name = grammar[b].name => a = b

\* The steps `rule` derives the token kinds `toks`: its terminals match them one
\* for one, then it ends with them or its link's RuleSet derives the rest.
RECURSIVE DerivesRule(_, _)
DerivesRule(steps, toks) ==
    IF steps = <<>> THEN toks = <<>>
    ELSE IF IsLink(steps[1])
      THEN \E k \in 1..Len(heap[steps[1].next]) :
               DerivesRule(heap[steps[1].next][k], toks)
      ELSE /\ toks # <<>>
           /\ toks[1] = steps[1].token
           /\ DerivesRule(Tail(steps), Tail(toks))

DerivedByStore(toks) == \E r \in StoreRules : DerivesRule(r, toks)

\* C1 as stated: on a grammar without a cycle of link-only rules and a token
\* stream without lexer errors, parse returns true iff some Rule of the store
\* derives the whole token-kind sequence.
C1_ParseIffDerives ==
    (Returned /\ NoLinkOnlyCycle /\ NoLexError(lexer.src))
        => ((result = "true") <=> DerivedByStore(lexer.src))

\* C1 amended: the same, for grammars whose Rules have no End terminal step.
C1_ParseIffDerivesNoEndStep ==
    (Returned /\ NoLinkOnlyCycle /\ NoLexError(lexer.src) /\ NoEndTerminal)
        => ((result = "true") <=> DerivedByStore(lexer.src))

C1_Witness ==
    /\ Returned
    /\ grammar = RefGrammar
    /\ NoLinkOnlyCycle
    /\ NoEndTerminal
    /\ Len(lexer.src) = 9
    /\ NoLexError(lexer.src)
    /\ result = "true"

\* The Rule to_store is to build from a grammar rule: its terminals in declared
\* order, then one link to the named RuleSet if it declares a non-terminal.
ExpectedRule(rule) ==
    to_rule_without_non_terminal(rule) \o
        (IF rule.non_terminal = NoneStr THEN <<>>
         ELSE << RuleStep(NoneTok, get_rule_set(rule.non_terminal)) >>)

\* C2: after to_store on a description with unique set names, the k-th Rule
\* of every stored RuleSet is the k-th grammar rule's terminals followed by
\* exactly one link step if and only if that rule declares a non-terminal.
C2_LinkOnDeclaringRule ==
    (pc = "loaded" /\ UniqueNames) =>
        \A i \in 1..Len(grammar) :
            LET rs == heap[get_rule_set(grammar[i].name)]
            IN  /\ Len(rs) = Len(grammar[i].rules)
                /\ \A k \in 1..Len(rs) : rs[k] = ExpectedRule(grammar[i].rules[k])

\* C3: a lexer error is a token that matches no step: the invocation of
\* process that acquires it returns false, and the recognizer never panics.
C3_LexerErrorRejects ==
    /\ obs.token = ErrTok => obs.ret = "false"
    /\ ~(pc = "panic" /\ stack # <<>>)

CanonicalNames == {"Contact", "Options", "Identifier", "Number", "End"}

WellFormed ==
    /\ UniqueNames
    /\ \A i \in 1..Len(grammar) : \A k \in 1..Len(grammar[i].rules) :
         LET rule == grammar[i].rules[k]
         IN  /\ \A t \in 1..Len(rule.terminals) : rule.terminals[t] \in CanonicalNames
             /\ rule.non_terminal # NoneStr =>
                  \E j \in 1..Len(grammar) : grammar[j].name = rule.non_terminal

\* C4: a description whose terminals are canonical token-kind names loads
\* (to_store does not panic), and each terminal step carries the token kind
\* of the same name.
C4_CanonicalNamesLoad ==
    WellFormed =>
        /\ pc # "panic"
        /\ pc = "loaded" =>
             \A i \in 1..Len(grammar) : \A k \in 1..Len(grammar[i].rules) :
               \A t \in 1..Len(grammar[i].rules[k].terminals) :
                 heap[get_rule_set(grammar[i].name)][k][t].token
                     = grammar[i].rules[k].terminals[t]

\* C5: the token stream the Parser matches is the one lexed from the text the
\* caller supplied when it constructed the Parser.
C5_MatchesCallerInput ==
    pc \in {"ready", "running"} => lexer.src = Lex(input)

\* Every Rule of every stored RuleSet occurs exactly once in rs, the Rules of
\* one set contiguous and in declaration order.
EveryRuleOnce(rs) ==
    /\ \A i \in 1..Len(rs) :
         /\ rs[i][1] \in StoreHandles
         /\ rs[i][2] \in 1..Len(heap[rs[i][1]])
         /\ rs[i][2] > 1 => (i > 1 /\ rs[i - 1] = <<rs[i][1], rs[i][2] - 1>>)
    /\ \A h \in StoreHandles : \A k \in 1..Len(heap[h]) :
         Cardinality({i \in 1..Len(rs) : rs[i] = <<h, k>>}) = 1

\* C6: the outermost disjunction of parse is every Rule of every RuleSet of
\* the store, once, set by set in declaration order; so on the reference grammar
\* the input `rate 10 20 30` alone is accepted.
C6_AllSetsAreStartSymbols ==
    /\ (pc = "running" /\ stack # <<>>) => EveryRuleOnce(stack[1].rules)
    /\ (Returned /\ grammar = RefGrammar /\ input = <<"rate", "10", "20", "30">>)
          => result = "true"

C6_Witness ==
    /\ Returned
    /\ grammar = RefGrammar
    /\ input = <<"rate", "10", "20", "30">>
    /\ order = <<"C", "R">>
    /\ result = "true"

\* `contact ID ID NUM NUM` at position i of the text t.
IsContactGroup(t, i) ==
    /\ i + 4 <= Len(t)
    /\ t[i] = "contact" /\ t[i + 1] \in {"A", "B"} /\ t[i + 2] \in {"A", "B"}
    /\ t[i + 3] \in Digits /\ t[i + 4] \in Digits

\* `rate NUM NUM NUM` or `delay NUM NUM NUM` at position i of the text t.
IsOptionsGroup(t, i) ==
    /\ i + 3 <= Len(t)
    /\ t[i] \in {"rate", "delay"} /\ t[i + 1] \in Digits /\ t[i + 2] \in Digits
    /\ t[i + 3] \in Digits

\* The text from position i on is made of groups the reference grammar allows:
\* a contact group is followed by the end or by a rate/delay group.
RECURSIVE RefGroups(_, _, _)
RefGroups(t, i, afterContact) ==
    IF i > Len(t) THEN TRUE
    ELSE IF IsContactGroup(t, i) THEN ~afterContact /\ RefGroups(t, i + 5, TRUE)
    ELSE IF IsOptionsGroup(t, i) THEN RefGroups(t, i + 4, FALSE)
    ELSE FALSE

C8_VerdictIsOrderIndependent ==
    \A a, b \in 1..Len(verdicts) : verdicts[a].verdict = verdicts[b].verdict

C8_Witness ==
    /\ Len(verdicts) = 2
    /\ verdicts[1].order # verdicts[2].order
    /\ verdicts[1].load # verdicts[2].load
    /\ verdicts[1].verdict = "true"

C10_EpsilonAcceptsAtEnd ==
    (obs.ret # NoRet /\ obs.size = 0 /\ obs.index = 0) =>
        /\ (obs.ret = "true") <=> (obs.token \in {"End", NoneTok})
        /\ obs.token \notin {"End", NoneTok} => obs.ret = "false"

C10_Witness ==
    /\ obs.size = 0
    /\ obs.index = 0
    /\ obs.carry = NoneTok
    /\ obs.end
    /\ obs.token = NoneTok
    /\ obs.ret = "true"

\* The real tokens among ts: every token but the End sentinel.
RealTokens(ts) == SelectSeq(ts, LAMBDA t : t # "End")

\* C11: parse never accepts on a proper prefix: when an invocation of process
\* returns true inside parse, the cursor of its branch is exhausted and the
\* terminal steps of the branch have matched every real token of the stream,
\* in order, once each; an invocation whose steps are all matched and that
\* acquires a real token returns false.
C11_NoAcceptOnProperPrefix ==
    /\ (pc = "running" /\ obs.ret = "true") =>
          /\ obs.pos = Len(lexer.src)
          /\ RealTokens(obs.matched) = lexer.src
    /\ (obs.ret # NoRet /\ obs.index = obs.size /\ obs.token \notin {NoneTok, "End"})
          => obs.ret = "false"

C11_Witness ==
    /\ pc = "running"
    /\ grammar = RefGrammar
    /\ Len(lexer.src) = 14
    /\ obs.ret = "true"
    /\ Len(obs.matched) = 14

\* C12: recognition never changes the rule graph: while a Parser exists over
\* a store, through any number of parse calls and direct calls of process,
\* the store's map and every stored RuleSet (its Rules and their step
\* sequences) are as to_store returned them.
C12_ParseLeavesGraph ==
    (pc \in {"ready", "running", "direct", "called"} \/ (pc = "panic" /\ stack # <<>>))
        => (sets = built.sets /\ heap = built.heap)

C12_Witness ==
    /\ Len(verdicts) = 2
    /\ verdicts[1].load = verdicts[2].load
    /\ grammar = RefGrammar
    /\ verdicts[2].verdict = "true"
    /\ Len(lexer.src) = 14
    /\ heap = built.heap

\* The position of the last of the first m sets of the description that is
\* named `name`, 0 if there is none.
LastAdded(name, m) ==
    LET S == {i \in 1..m : grammar[i].name = name}
    IN  IF S = {} THEN 0 ELSE CHOOSE i \in S : \A j \in S : j <= i

\* C13: after any sequence of add_rule_set calls get_rule_set(name) is the
\* RuleSet added last under that name (a later add of the same name replaces
\* the earlier one, adds of other names leave it alone), and none for a name
\* never added.
C13_LastAddWins ==
    /\ pc = "pass1" =>
          \A n \in Names \cup {"X"} :
            LET i == LastAdded(n, si - 1)
            IN  /\ get_rule_set(n) = i
                /\ i # 0 => heap[get_rule_set(n)]
                               = to_rule_set_without_non_terminal(grammar[i])
    /\ pc \in {"pass2", "loaded", "ready", "running"} =>
          \A n \in Names \cup {"X"} : get_rule_set(n) = LastAdded(n, Len(grammar))

C13_Witness ==
    /\ pc = "pass1"
    /\ si = 4
    /\ grammar[1].name = "C" /\ grammar[2].name = "R" /\ grammar[3].name = "C"
    /\ get_rule_set("C") = 3
    /\ get_rule_set("R") = 2
    /\ get_rule_set("S") = 0

\* C14: process_rule_set tries its Rules in declaration order, one at a
\* time: the Rule in progress is the next one after those already tried, all
\* of which returned false; it returns true at the first Rule that returned
\* true, having tried none after it, and false only when every Rule has been
\* tried and returned false.
C14_FirstMatchInOrder ==
    /\ \A p \in 1..Len(stack) :
          stack[p].fn = "prs" =>
            LET f == stack[p]
                busy == p < Len(stack) \/ ret # NoRet
            IN  /\ \A i \in 1..Len(f.tried) : f.tried[i] = "false"
                /\ f.k = Len(f.tried) + (IF busy THEN 1 ELSE 0)
                /\ f.k <= Len(f.rules)
                /\ p < Len(stack) =>
                      /\ stack[p + 1].fn = "process"
                      /\ stack[p + 1].ref = f.rules[f.k]
    /\ obsSet.ret = "true" =>
          /\ Len(obsSet.tried) \in 1..obsSet.size
          /\ \A i \in 1..Len(obsSet.tried) :
                obsSet.tried[i] = (IF i = Len(obsSet.tried) THEN "true" ELSE "false")
    /\ obsSet.ret = "false" =>
          /\ Len(obsSet.tried) = obsSet.size
          /\ \A i \in 1..Len(obsSet.tried) : obsSet.tried[i] = "false"

C14_Witness ==
    /\ pc = "running"
    /\ grammar = RefGrammar
    /\ obsSet.ret = "true"
    /\ obsSet.size = 5
    /\ Len(obsSet.tried) = 4

\* C15: backtracking restores the input: every alternative of a
\* process_rule_set starts at the cursor position, with the carry token, the
\* end-latch and the index the invocation was entered with, and the cursor of
\* the caller stays where it was at entry while the invocation runs and when it
\* returns.
C15_AlternativesStartAlike ==
    /\ \A p \in 1..Len(stack) :
          stack[p].fn = "prs" =>
            /\ CursorPos(p) = stack[p].entry
            /\ (pc \in Running /\ p + 1 = Len(stack) /\ ret = NoRet) =>
                  /\ stack[p].lex = stack[p].entry
                  /\ Top.carry = stack[p].carry
                  /\ Top.end = stack[p].end
                  /\ Top.index = stack[p].index
    /\ obsSet.exit = obsSet.entry

C15_Witness ==
    /\ pc = "running"
    /\ ret = NoRet
    /\ Len(stack) >= 4
    /\ stack[Len(stack) - 1].fn = "prs"
    /\ stack[Len(stack) - 1].k >= 2
    /\ stack[Len(stack) - 1].carry # NoneTok
    /\ obs.ret = "false"
    /\ obs.pos >= stack[Len(stack) - 1].entry + 2
    /\ stack[Len(stack) - 1].lex = stack[Len(stack) - 1].entry

\* C16: no token is skipped or matched twice across a link: the token
\* acquired at a link step is the carry of the referenced RuleSet and of the
\* first invocation of process of each of its alternatives, which uses it
\* without reading the cursor; the invocation after a terminal match has no
\* carry and is at the next step; and inside parse the tokens the terminal
\* steps of a branch have matched are the first tokens of the stream, in
\* order, once each.
C16_CarryAcrossLink ==
    /\ \A p \in 1..(Len(stack) - 1) :
          /\ (stack[p].fn = "process" /\ stack[p + 1].fn = "prs") =>
                /\ stack[p].token # NoneTok
                /\ stack[p + 1].carry = stack[p].token
          /\ (stack[p].fn = "prs" /\ stack[p].carry # NoneTok) =>
                /\ stack[p + 1].carry = stack[p].carry
                /\ (p + 1 < Len(stack) \/ pc = "panic") =>
                      stack[p + 1].token = stack[p].carry
          /\ (stack[p].fn = "process" /\ stack[p + 1].fn = "process") =>
                /\ stack[p + 1].carry = NoneTok
                /\ stack[p + 1].index = stack[p].index + 1
    /\ (obs.ret # NoRet /\ obs.carry # NoneTok) =>
          (obs.token = obs.carry /\ obs.read = 0)
    /\ pc = "running" =>
          LET got == RealTokens(Matched(stack))
          IN  /\ Len(got) <= Len(lexer.src)
              /\ got = SubSeq(lexer.src, 1, Len(got))

C16_Witness ==
    /\ pc = "running"
    /\ grammar = RefGrammar
    /\ Len(Matched(stack)) = 7
    /\ \E p \in 1..(Len(stack) - 1) :
          /\ stack[p].fn = "process" /\ stack[p + 1].fn = "prs"
          /\ stack[p].token = "Options"
          /\ stack[p + 1].k = 2

\* The frames of process on the stack that produced the End sentinel.
EndProducers ==
    {p \in 1..Len(stack) :
        stack[p].fn = "process" /\ stack[p].carry = NoneTok /\ stack[p].token = "End"}

\* C17: the End sentinel is produced only when the cursor is exhausted and
\* the end-latch is unset, and producing it sets the latch; the latch of a
\* frame is handed to every frame it calls and is never reset; so at most one
\* frame of a chain has produced End, and an acquisition on an exhausted cursor
\* with the latch set yields no token.
C17_EndOnce ==
    /\ (obs.ret # NoRet /\ obs.carry = NoneTok /\ obs.token = "End") =>
          /\ pc \in Running => obs.pos = Len(lexer.src)
          /\ obs.read = 0
          /\ ~obs.end
          /\ obs.latch
    /\ (obs.ret # NoRet /\ obs.latch # obs.end) =>
          (obs.latch /\ obs.carry = NoneTok /\ obs.token = "End")
    /\ (obs.ret # NoRet /\ obs.carry = NoneTok /\ obs.end /\ obs.read = 0) =>
          obs.token = NoneTok
    /\ \A p \in 1..(Len(stack) - 1) : stack[p].end => stack[p + 1].end
    /\ \A p \in EndProducers : stack[p].end
    /\ Cardinality(EndProducers) <= 1

C17_Witness ==
    /\ pc = "running"
    /\ obs.carry = NoneTok
    /\ obs.end
    /\ obs.token = NoneTok
    /\ obs.ret = "true"
    /\ ret = "true"
    /\ Cardinality(EndProducers) = 1
    /\ Top.token = "End"
    /\ Top.end

\* The recursion of parse has used up the depth this model follows it to.
AtMaxDepth == pc = "running" /\ Len(stack) = MaxDepth

\* parse has ended in a panic of the recognizer, without a verdict.
RecognizerPanicked == pc = "panic" /\ stack # <<>> /\ stack[1].fn = "prs"

\* C18: on a rule graph without a cycle of link-only Rules parse terminates
\* with a verdict on every finite token stream: its recursion stays below the
\* depth bound and it does not end in a panic.
C18_ParseTerminates ==
    NoLinkOnlyCycle => (~AtMaxDepth /\ ~RecognizerPanicked)

\* The same on token streams without a lexer error.
ParseTerminatesOnTokens ==
    (NoLinkOnlyCycle /\ NoLexError(lexer.src)) => (~AtMaxDepth /\ ~RecognizerPanicked)

\* Following, n times, the link that is the sole step of the first Rule leads
\* from the RuleSet h through RuleSets whose first Rule is again a sole link.
RECURSIVE FirstLinkChain(_, _)
FirstLinkChain(h, n) ==
    \/ n = 0
    \/ /\ heap[h] # <<>>
       /\ Len(heap[h][1]) = 1
       /\ heap[h][1][1].token = NoneTok
       /\ heap[h][1][1].next # 0
       /\ FirstLinkChain(heap[h][1][1].next, n - 1)

\* parse has entered, through a link, a RuleSet that reaches itself through
\* the sole link steps of first Rules, with no terminal in between.
InLinkLoop ==
    /\ pc = "running"
    /\ \E p \in 1..Len(stack) :
          /\ stack[p].fn = "prs"
          /\ stack[p].carry # NoneTok
          /\ stack[p].rules # <<>>
          /\ FirstLinkChain(stack[p].rules[1][1], Len(heap))

\* C19: the recognizer has no cycle detection and no depth bound: once parse
\* has entered such a RuleSet through a link, every step it takes is one more
\* call, it is still inside parse afterwards, and it never returns a verdict.
C19_LinkLoopRecursesOn ==
    [][InLinkLoop => (pc' = "running" /\ Len(stack') = Len(stack) + 1
                        /\ result' = NoRet)]_vars

C19_Witness ==
    /\ InLinkLoop
    /\ Len(stack) = MaxDepth
    /\ Len(lexer.src) >= 1
    /\ result = NoRet

\* The RuleSets the link steps of the step list `steps` refer to, in order.
TargetsOf(steps) ==
    LET links == SelectSeq(steps, LAMBDA s : s.token = NoneTok /\ s.next # 0)
    IN  [j \in 1..Len(links) |-> links[j].next]

\* The RuleSets the link steps of the RuleSet rs refer to, Rule by Rule.
LinkTargets(rs) == Concat([k \in 1..Len(rs) |-> TargetsOf(rs[k])])

\* The RuleSets the store holds under the non-terminals the rules of the
\* grammar set declare, in declaration order.
DeclaredTargets(set) ==
    Concat([k \in 1..Len(set.rules) |->
              IF set.rules[k].non_terminal = NoneStr THEN <<>>
              ELSE << get_rule_set(set.rules[k].non_terminal) >>])

\* C20: after to_store every link step refers to the RuleSet the store holds
\* under the name its grammar rule declared, and not to a copy of it: the
\* Rules the recognizer reaches through a link are the Rules of that stored
\* RuleSet, with the step sequences to_store returned, the link steps pass 2
\* appended after the link was made included.
C20_LinksShareStoredSets ==
    /\ (pc \in {"loaded", "ready", "running", "direct", "called"} /\ UniqueNames) =>
          \A i \in 1..Len(grammar) :
              LinkTargets(heap[get_rule_set(grammar[i].name)])
                  = DeclaredTargets(grammar[i])
    /\ pc \in Running =>
          \A p \in 2..Len(stack) :
            (stack[p].fn = "prs" /\ stack[p - 1].fn = "process") =>
              LET h == stack[p - 1].steps[stack[p - 1].index + 1].next
              IN  /\ h \in StoreHandles
                  /\ stack[p].rules = RulesOf(h)
                  /\ p < Len(stack) =>
                        stack[p + 1].steps = built.heap[h][stack[p].k]

C20_Witness ==
    /\ pc = "running"
    /\ grammar = RefGrammar
    /\ \E p \in 2..(Len(stack) - 1) :
          /\ stack[p].fn = "prs" /\ stack[p - 1].fn = "process"
          /\ stack[p].rules = RulesOf(get_rule_set("R"))
          /\ stack[p - 1].steps = heap[get_rule_set("C")][1]
          /\ stack[p + 1].steps = heap[get_rule_set("R")][stack[p].k]
          /\ TargetsOf(stack[p + 1].steps) = << get_rule_set("C") >>

\* The step has exactly one of its two fields populated.
OneField(step) == (step.token # NoneTok) # (step.next # 0)

\* C21: in every store to_store returns for a description with unique set
\* names, every step of every Rule has exactly one of token and next
\* populated, and a link step occurs only as the last step of its Rule, so
\* that all terminal steps precede it and there is at most one.
C21_StepsWellFormed ==
    (pc \in {"loaded", "ready", "running", "direct", "called"} /\ UniqueNames) =>
        \A h \in StoreHandles : \A k \in 1..Len(heap[h]) :
            LET steps == heap[h][k]
            IN  \A j \in 1..Len(steps) :
                  /\ OneField(steps[j])
                  /\ steps[j].next # 0 => j = Len(steps)

C21_Witness ==
    /\ pc = "loaded"
    /\ UniqueNames
    /\ grammar = RefGrammar
    /\ \E h \in StoreHandles : \E k \in 1..Len(heap[h]) :
          /\ Len(heap[h][k]) = 6
          /\ heap[h][k][6].next # 0
          /\ heap[h][k][5].next = 0

\* Every non-terminal a rule of the description names is the name of one of
\* its sets.
NonTerminalsDefined ==
    \A i \in 1..Len(grammar) : \A k \in 1..Len(grammar[i].rules) :
        grammar[i].rules[k].non_terminal # NoneStr =>
            \E j \in 1..Len(grammar) :
                grammar[j].name = grammar[i].rules[k].non_terminal

\* Every terminal a rule of the description names is in the set `known`.
TerminalsIn(known) ==
    \A i \in 1..Len(grammar) : \A k \in 1..Len(grammar[i].rules) :
        \A t \in 1..Len(grammar[i].rules[k].terminals) :
            grammar[i].rules[k].terminals[t] \in known

\* C22: grammar loading is all-or-nothing: to_store returns a store only if
\* every terminal of the description names a known token kind and every
\* non-terminal names a set of the description; otherwise it aborts.
C22_LoadAllOrNothing ==
    loads >= 1 => (TerminalsIn(CanonicalNames) /\ NonTerminalsDefined)

\* The names Token::from_string maps to a token kind.
FromStringNames == {s \in CanonicalNames \cup {"Rate", "Delay", "Bogus"} :
                       from_string(s) # "PANIC"}

\* to_store returns a store only if from_string maps every terminal of the
\* description and every non-terminal names a set of the description.
LoadsOnlyWhatResolves ==
    loads >= 1 => (TerminalsIn(FromStringNames) /\ NonTerminalsDefined)

\* C23: no lock on a RuleSet or on a step list is held while the recognizer
\* makes a recursive call: every frame that has a call running above it holds
\* no lock, so the locks an invocation of process is about to take, its own
\* step list included, are free, also when the same Rule or RuleSet is being
\* matched further down the stack.
C23_NoLockAcrossCalls ==
    /\ \A p \in 1..Len(stack) : stack[p].locked = {}
    /\ (pc \in Running /\ stack # <<>> /\ Top.fn = "process" /\ ret = NoRet
          /\ Top.ref # <<0, 0>>) =>
          /\ StepsLock(Top.ref) \notin HeldLocks
          /\ \A h \in StoreHandles : SetLock(h) \notin HeldLocks

C23_Witness ==
    /\ pc = "running"
    /\ ret = NoRet
    /\ Top.fn = "process"
    /\ Top.token = NoneTok
    /\ Top.ref # <<0, 0>>
    /\ \E p \in 1..(Len(stack) - 1) :
          /\ stack[p].ref = Top.ref
          /\ stack[p].token # NoneTok
    /\ StepsLock(Top.ref) \notin HeldLocks

\* C24: parse does not advance the Parser's own cursor: from the
\* construction of the Parser on, through every parse call and after it, the
\* cursor is where it was constructed, at the start of the stream; and the
\* parse calls made on one Parser all return the same verdict.
C24_ParseKeepsCursor ==
    /\ (pc \in {"ready", "running"} \/ RecognizerPanicked) => lexer.pos = 0
    /\ \A a, b \in 1..Len(verdicts) :
          verdicts[a].load = verdicts[b].load
              => verdicts[a].verdict = verdicts[b].verdict

C24_Witness ==
    /\ pc = "ready"
    /\ Len(verdicts) = 2
    /\ verdicts[1].load = verdicts[2].load
    /\ verdicts[1].verdict = "false"
    /\ verdicts[2].verdict = "false"
    /\ grammar = RefGrammar
    /\ Len(lexer.src) = 4
    /\ obs.pos >= 1
    /\ lexer.pos = 0

----------------------------------------------------------------------------
(* Specifications *)

\* The program as parser.rs constructs the Parser.
Next ==
    \/ Pass1
    \/ Pass2
    \/ ParserNew
    \/ Parse
    \/ ProcessStep
    \/ ProcessReturn
    \/ RuleSetStep
    \/ RuleSetReturn
    \/ ParseReturn
    \/ Reload

Spec == Init /\ [][Next]_vars

\* The loader and the recognizer over every enumerated token stream.
NextRecognizer ==
    \/ Pass1
    \/ Pass2
    \/ ParserOver
    \/ Parse
    \/ ProcessStep
    \/ ProcessReturn
    \/ RuleSetStep
    \/ RuleSetReturn
    \/ ParseReturn
    \/ Reload
    \/ CallProcess
    \/ CallReturn

SpecRecognizer == Init /\ [][NextRecognizer]_vars

====
